---- MODULE Spec2Model ----
(***************************************************************************)
(* Model of github/issues.go (IssuesService: issue and milestone           *)
(* operations).  Every exported operation builds one request from its      *)
(* arguments through the client collaborator (addOptions, NewRequest),     *)
(* hands it to client.Do and maps Do's outcome to its return values.       *)
(*                                                                         *)
(* Go values are represented as follows:                                   *)
(*   - a pointer is a sequence: <<>> is nil, <<v>> points to v;            *)
(*   - a string, an int and a []string are a TLA+ string, integer and      *)
(*     sequence of strings; a time.Time is a string, "" the zero time;     *)
(*   - a JSON document on the wire is its text.                            *)
(***************************************************************************)
EXTENDS Integers, Sequences, FiniteSets, TLC

VARIABLES
    service,   \* the IssuesService value shared by all calls (its client field)
    calls,     \* call id -> the position and data of that call
    wire,      \* an issue as JSON on the wire: key -> value text
    decoded,   \* the Issue decoded from wire, <<>> before decoding
    reported   \* what IsPullRequest reported for decoded, <<>> before the call

vars == <<service, calls, wire, decoded, reported>>

-----------------------------------------------------------------------------
(* Bounds of the model *)

MaxNumber == 2     \* issue and milestone numbers are 1..MaxNumber
NumCalls == 2      \* concurrent calls in SpecConc

-----------------------------------------------------------------------------
(* Go values *)

Nil == <<>>
Ptr(v) == <<v>>
Deref(p) == p[1]

\* strings.Join(elems, sep)
RECURSIVE Join(_, _)
Join(elems, sep) ==
    IF elems = <<>> THEN ""
    ELSE IF Len(elems) = 1 THEN elems[1]
    ELSE elems[1] \o sep \o Join(Tail(elems), sep)

Quote(s) == "\"" \o s \o "\""

RECURSIVE QuoteAll(_)
QuoteAll(elems) ==
    IF elems = <<>> THEN <<>> ELSE <<Quote(elems[1])>> \o QuoteAll(Tail(elems))

\* The empty value of a kind, as reflect sees it (omitempty).
IsEmptyValue(kind, v) ==
    CASE kind = "string"  -> v = ""
      [] kind = "int"     -> v = 0
      [] kind = "strings" -> v = <<>>
      [] kind = "time"    -> v = ""
      [] OTHER            -> v = Nil      \* pointer kinds

-----------------------------------------------------------------------------
(* Struct declarations: one entry per field with its json or url tag.      *)
(* kind is the Go type as far as encoding sees it: "*string", "*int",      *)
(* "*[]string", "string", "int", "strings" ([]string), "time", and "*raw"  *)
(* for a pointer to a struct or slice whose JSON text is carried as is.    *)

F(field, name, opts, kind) ==
    [field |-> field, name |-> name, opts |-> opts, kind |-> kind]

OE == {"omitempty"}

IssueFields == <<
    F("ID", "id", OE, "*int"),
    F("Number", "number", OE, "*int"),
    F("State", "state", OE, "*string"),
    F("StateReason", "state_reason", OE, "*string"),
    F("Locked", "locked", OE, "*raw"),
    F("Title", "title", OE, "*string"),
    F("Body", "body", OE, "*string"),
    F("AuthorAssociation", "author_association", OE, "*string"),
    F("User", "user", OE, "*raw"),
    F("Labels", "labels", OE, "*raw"),
    F("Assignee", "assignee", OE, "*raw"),
    F("Comments", "comments", OE, "*int"),
    F("ClosedAt", "closed_at", OE, "*raw"),
    F("CreatedAt", "created_at", OE, "*raw"),
    F("UpdatedAt", "updated_at", OE, "*raw"),
    F("ClosedBy", "closed_by", OE, "*raw"),
    F("URL", "url", OE, "*string"),
    F("HTMLURL", "html_url", OE, "*string"),
    F("CommentsURL", "comments_url", OE, "*string"),
    F("EventsURL", "events_url", OE, "*string"),
    F("LabelsURL", "labels_url", OE, "*string"),
    F("RepositoryURL", "repository_url", OE, "*string"),
    F("Milestone", "milestone", OE, "*raw"),
    F("PullRequestLinks", "pull_request", OE, "*raw"),
    F("Repository", "repository", OE, "*raw"),
    F("Reactions", "reactions", OE, "*raw"),
    F("Assignees", "assignees", OE, "*raw"),
    F("NodeID", "node_id", OE, "*string"),
    F("Draft", "draft", OE, "*raw"),
    F("Type", "type", OE, "*raw"),
    F("TextMatches", "text_matches", OE, "*raw"),
    F("ActiveLockReason", "active_lock_reason", OE, "*string") >>

IssueRequestFields == <<
    F("Title", "title", OE, "*string"),
    F("Body", "body", OE, "*string"),
    F("Labels", "labels", OE, "*[]string"),
    F("Assignee", "assignee", OE, "*string"),
    F("State", "state", OE, "*string"),
    F("StateReason", "state_reason", OE, "*string"),
    F("Milestone", "milestone", OE, "*int"),
    F("Assignees", "assignees", OE, "*[]string"),
    F("Type", "type", OE, "*string") >>

\* The anonymous struct RemoveMilestone sends: no omitempty on its one field.
RemoveMilestoneFields == << F("Milestone", "milestone", {}, "*raw") >>

\* LockIssueOptions with its json tag forgotten.
LockIssueOptionsFieldsUntagged == << F("LockReason", "LockReason", {}, "string") >>

LockIssueOptionsFields == << F("LockReason", "lock_reason", OE, "string") >>

MilestoneFields == <<
    F("URL", "url", OE, "*string"),
    F("HTMLURL", "html_url", OE, "*string"),
    F("LabelsURL", "labels_url", OE, "*string"),
    F("ID", "id", OE, "*int"),
    F("Number", "number", OE, "*int"),
    F("State", "state", OE, "*string"),
    F("Title", "title", OE, "*string"),
    F("Description", "description", OE, "*string"),
    F("Creator", "creator", OE, "*raw"),
    F("OpenIssues", "open_issues", OE, "*int"),
    F("ClosedIssues", "closed_issues", OE, "*int"),
    F("CreatedAt", "created_at", OE, "*raw"),
    F("UpdatedAt", "updated_at", OE, "*raw"),
    F("ClosedAt", "closed_at", OE, "*raw"),
    F("DueOn", "due_on", OE, "*raw"),
    F("NodeID", "node_id", OE, "*string") >>

\* The shared pagination fragments embedded in the list options.
ListOptionsFields == <<
    F("Page", "page", OE, "int"),
    F("PerPage", "per_page", OE, "int") >>

ListCursorOptionsFields == <<
    F("Page", "page", OE, "string"),
    F("PerPage", "per_page", OE, "int") >>

IssueListOptionsFields == <<
    F("Filter", "filter", OE, "string"),
    F("State", "state", OE, "string"),
    F("Labels", "labels", {"comma", "omitempty"}, "strings"),
    F("Sort", "sort", OE, "string"),
    F("Direction", "direction", OE, "string"),
    F("Since", "since", OE, "time") >>

\* IssueListOptions with the embedded ListOptions left out.
IssueListOptionsEmbeddedCursorOnly ==
    << [field |-> "ListCursorOptions", fields |-> ListCursorOptionsFields] >>

IssueListOptionsEmbedded ==
    << [field |-> "ListCursorOptions", fields |-> ListCursorOptionsFields],
       [field |-> "ListOptions", fields |-> ListOptionsFields] >>

\* IssueListByRepoOptions with the comma option of Labels forgotten.
IssueListByRepoOptionsFieldsNoComma == <<
    F("Milestone", "milestone", OE, "string"),
    F("State", "state", OE, "string"),
    F("Assignee", "assignee", OE, "string"),
    F("Creator", "creator", OE, "string"),
    F("Mentioned", "mentioned", OE, "string"),
    F("Labels", "labels", {"omitempty"}, "strings"),
    F("Sort", "sort", OE, "string"),
    F("Direction", "direction", OE, "string"),
    F("Since", "since", OE, "time") >>

IssueListByRepoOptionsFields == <<
    F("Milestone", "milestone", OE, "string"),
    F("State", "state", OE, "string"),
    F("Assignee", "assignee", OE, "string"),
    F("Creator", "creator", OE, "string"),
    F("Mentioned", "mentioned", OE, "string"),
    F("Labels", "labels", {"omitempty", "comma"}, "strings"),
    F("Sort", "sort", OE, "string"),
    F("Direction", "direction", OE, "string"),
    F("Since", "since", OE, "time") >>

IssueListByRepoOptionsEmbedded ==
    << [field |-> "ListCursorOptions", fields |-> ListCursorOptionsFields],
       [field |-> "ListOptions", fields |-> ListOptionsFields] >>

MilestoneListOptionsFields == <<
    F("State", "state", OE, "string"),
    F("Sort", "sort", OE, "string"),
    F("Direction", "direction", OE, "string") >>

MilestoneListOptionsEmbedded ==
    << [field |-> "ListOptions", fields |-> ListOptionsFields] >>

-----------------------------------------------------------------------------
(* JSON encoding of a request body (encoding/json driven by the json tags) *)

MarshalValue(kind, v) ==
    CASE kind = "string"    -> Quote(v)
      [] kind = "int"       -> ToString(v)
      [] v = Nil            -> "null"
      [] kind = "*string"   -> Quote(Deref(v))
      [] kind = "*int"      -> ToString(Deref(v))
      [] kind = "*[]string" -> "[" \o Join(QuoteAll(Deref(v)), ",") \o "]"
      [] OTHER              -> Deref(v)

\* The members of the object, in declaration order; a field tagged
\* omitempty is left out when its value is empty.
RECURSIVE Members(_, _)
Members(fields, val) ==
    IF fields = <<>> THEN <<>>
    ELSE LET f == fields[1]
             v == val[f.field]
         IN (IF "omitempty" \in f.opts /\ IsEmptyValue(f.kind, v)
             THEN <<>>
             ELSE << Quote(f.name) \o ":" \o MarshalValue(f.kind, v) >>)
            \o Members(Tail(fields), val)

Marshal(fields, val) == "{" \o Join(Members(fields, val), ",") \o "}"

JSONFields(type) ==
    CASE type = "IssueRequest"     -> IssueRequestFields
      [] type = "RemoveMilestone"  -> RemoveMilestoneFields
      [] type = "LockIssueOptions" -> LockIssueOptionsFields
      [] type = "Milestone"        -> MilestoneFields

\* A struct value with every field at its zero value, then some fields set.
Zero(fields) ==
    [n \in {fields[i].field : i \in DOMAIN fields} |->
        LET k == (CHOOSE i \in DOMAIN fields : fields[i].field = n)
            kind == fields[k].kind
        IN CASE kind = "string"  -> ""
             [] kind = "int"     -> 0
             [] kind = "strings" -> <<>>
             [] kind = "time"    -> ""
             [] OTHER            -> Nil]

With(rec, upd) ==
    [n \in DOMAIN rec |-> IF n \in DOMAIN upd THEN upd[n] ELSE rec[n]]

-----------------------------------------------------------------------------
(* Query encoding of an options struct (the url tags)                      *)

\* One field's value as query text.
QueryValue(kind, v) ==
    CASE kind = "int"     -> ToString(v)
      [] kind = "strings" -> Join(v, ",")
      [] OTHER            -> v

RECURSIVE Repeated(_, _)
Repeated(name, elems) ==
    IF elems = <<>> THEN <<>>
    ELSE << <<name, elems[1]>> >> \o Repeated(name, Tail(elems))

\* The parameters the fields of one struct add, in declaration order.
RECURSIVE FieldParams(_, _)
FieldParams(fields, val) ==
    IF fields = <<>> THEN <<>>
    ELSE LET f == fields[1]
             v == val[f.field]
         IN (IF "omitempty" \in f.opts /\ IsEmptyValue(f.kind, v) THEN <<>>
             ELSE IF f.kind = "strings" /\ "comma" \notin f.opts
                  THEN Repeated(f.name, v)
             ELSE << <<f.name, QueryValue(f.kind, v)>> >>)
            \o FieldParams(Tail(fields), val)

RECURSIVE EmbeddedParams(_, _)
EmbeddedParams(embedded, val) ==
    IF embedded = <<>> THEN <<>>
    ELSE FieldParams(embedded[1].fields, val[embedded[1].field])
         \o EmbeddedParams(Tail(embedded), val)

OptionFields(type) ==
    CASE type = "IssueListOptions"       -> IssueListOptionsFields
      [] type = "IssueListByRepoOptions" -> IssueListByRepoOptionsFields
      [] type = "MilestoneListOptions"   -> MilestoneListOptionsFields

OptionEmbedded(type) ==
    CASE type = "IssueListOptions"       -> IssueListOptionsEmbedded
      [] type = "IssueListByRepoOptions" -> IssueListByRepoOptionsEmbedded
      [] type = "MilestoneListOptions"   -> MilestoneListOptionsEmbedded

\* query.Values(opts): the direct fields first, the embedded structs after.
QueryValues(type, val) ==
    FieldParams(OptionFields(type), val)
    \o EmbeddedParams(OptionEmbedded(type), val)

ZeroOptions(type) ==
    LET emb == OptionEmbedded(type)
        own == Zero(OptionFields(type))
    IN [n \in DOMAIN own \cup {emb[i].field : i \in DOMAIN emb} |->
          IF n \in DOMAIN own THEN own[n]
          ELSE Zero(emb[CHOOSE i \in DOMAIN emb : emb[i].field = n].fields)]


-----------------------------------------------------------------------------
(* The client collaborator: addOptions, NewRequest, Do                     *)

mediaTypeReactionsPreview == "application/vnd.github.squirrel-girl-preview"

\* A relative URL: its path and its query parameters, in order.
URL(path) == [path |-> path, query |-> <<>>]

\* An argument of interface type: the static type of what was passed and
\* the pointer itself.  The literal nil has the type "nil".
Iface(type, ptr) == [type |-> type, ptr |-> ptr]
UntypedNil == Iface("nil", Nil)

Err(text) == <<text>>

\* addOptions(s, opts): s with opts encoded as its query parameters; s
\* itself for nil opts; ok = FALSE is a failure to parse or encode.
addOptions(s, type, opts, ok) ==
    IF opts = Nil THEN [u |-> s, err |-> Nil]
    ELSE IF ~ok THEN [u |-> s, err |-> Err("addOptions: cannot encode")]
    ELSE [u |-> [path |-> s.path, query |-> QueryValues(type, Deref(opts))],
          err |-> Nil]

\* NewRequest(method, urlStr, body): the request, its body the JSON
\* encoding of body when one is given; ok = FALSE is a failure to build.
NewRequest(method, u, body, ok) ==
    IF ~ok THEN [req |-> Nil, err |-> Err("NewRequest: cannot build")]
    ELSE [req |-> Ptr([method |-> method,
                       path   |-> u.path,
                       query  |-> u.query,
                       body   |-> IF body.ptr = Nil THEN Nil
                                  ELSE Ptr(Marshal(JSONFields(body.type),
                                                   Deref(body.ptr))),
                       header |-> <<>>]),
          err |-> Nil]

\* req.Header.Set(key, value)
HeaderSet(req, key, value) ==
    Ptr([Deref(req) EXCEPT !.header =
            [k \in DOMAIN @ \cup {key} |-> IF k = key THEN value ELSE @[k]]])

\* What a call of Do can come to.
DoResults == {"ok", "transport", "status", "decode"}

\* Do(ctx, req, v): the response, the error, and what v holds afterwards.
\* dest is the type behind v ("nil" when the caller passes no v).
Do(dest, v, result) ==
    CASE result = "ok" ->
            [resp |-> Ptr("200 OK"), err |-> Nil,
             v |-> IF dest = "nil" THEN v ELSE Ptr("decoded " \o dest)]
      [] result = "transport" ->
            [resp |-> Nil, err |-> Err("transport failure"), v |-> v]
      [] result = "status" ->
            [resp |-> Ptr("404 Not Found"), err |-> Err("404 Not Found"), v |-> v]
      [] result = "decode" ->
            [resp |-> Ptr("200 OK"), err |-> Err("cannot decode"),
             v |-> IF dest = "nil" THEN v ELSE Ptr("partly decoded " \o dest)]

-----------------------------------------------------------------------------
(* The state of a call *)

Operations ==
    {"List", "ListByOrg", "ListByRepo", "Get", "Create", "Edit",
     "RemoveMilestone", "Lock", "Unlock", "ListMilestones", "GetMilestone",
     "CreateMilestone", "EditMilestone", "DeleteMilestone"}

IdleCall ==
    [pc |-> "idle", op |-> "", ctx |-> "", args |-> <<>>,
     nNewRequest |-> 0, nDo |-> 0, req |-> Nil, doCtx |-> Nil,
     ao |-> TRUE, nr |-> TRUE, dest |-> "nil", v |-> Nil, out |-> Nil,
     ret |-> Nil]

\* Each goroutine of the model makes one call.
Callable(c) == calls[c].pc = "idle"

\* The call returns (result, resp, err) on the failure err of addOptions
\* (nNew = 0) or of NewRequest (nNew = 1), before reaching Do.
Returned(op, ctx, args, nNew, result, resp, err) ==
    [IdleCall EXCEPT !.pc = "done", !.op = op, !.ctx = ctx, !.args = args,
                     !.nNewRequest = nNew,
                     !.ret = Ptr([result |-> result, resp |-> resp, err |-> err])]

\* The call is inside s.client.Do(doCtx, req, v).
InDo(op, ctx, args, doCtx, req, dest, v) ==
    [IdleCall EXCEPT !.pc = "inDo", !.op = op, !.ctx = ctx, !.args = args,
                     !.nNewRequest = 1, !.nDo = 1, !.req = req,
                     !.doCtx = Ptr(doCtx), !.dest = dest, !.v = v]


\* Goroutine c enters an operation and runs it up to its return or to its
\* call of Do; ao and nr, what the collaborator does in this call, are kept.
Begin(c, ao, nr, record) ==
    /\ Callable(c)
    /\ calls' = [calls EXCEPT ![c] = [record EXCEPT !.ao = ao, !.nr = nr]]
    /\ UNCHANGED <<service, wire, decoded, reported>>

-----------------------------------------------------------------------------
(* Issue operations.  ao and nr say whether addOptions and NewRequest      *)
(* succeed in this call.                                                   *)

listIssues(op, ctx, args, path, opts, ao, nr) ==
    LET a == addOptions(URL(path), "IssueListOptions", opts, ao)
        r == NewRequest("GET", a.u, UntypedNil, nr)
    IN IF a.err # Nil THEN Returned(op, ctx, args, 0, Nil, Nil, a.err)
       ELSE IF r.err # Nil THEN Returned(op, ctx, args, 1, Nil, Nil, r.err)
       ELSE InDo(op, ctx, args, ctx,
                 HeaderSet(r.req, "Accept", mediaTypeReactionsPreview),
                 "[]*Issue", Nil)

\* List with the two endpoints the wrong way round.
ListSwapped(c, ctx, all, opts, ao, nr) ==
    LET u == IF all THEN "user/issues" ELSE "issues"
    IN Begin(c, ao, nr, listIssues("List", ctx, [all |-> all, opts |-> opts],
                                   u, opts, ao, nr))

List(c, ctx, all, opts, ao, nr) ==
    LET u == IF all THEN "issues" ELSE "user/issues"
    IN Begin(c, ao, nr, listIssues("List", ctx, [all |-> all, opts |-> opts],
                           u, opts, ao, nr))

ListByOrg(c, ctx, org, opts, ao, nr) ==
    LET u == "orgs/" \o org \o "/issues"
    IN Begin(c, ao, nr, listIssues("ListByOrg", ctx, [org |-> org, opts |-> opts],
                           u, opts, ao, nr))

\* ListByRepo without the preview header.
ListByRepoWithoutPreview(c, ctx, owner, repo, opts, ao, nr) ==
    LET args == [owner |-> owner, repo |-> repo, opts |-> opts]
        u == "repos/" \o owner \o "/" \o repo \o "/issues"
        a == addOptions(URL(u), "IssueListByRepoOptions", opts, ao)
        r == NewRequest("GET", a.u, UntypedNil, nr)
    IN Begin(c, ao, nr,
         IF a.err # Nil THEN Returned("ListByRepo", ctx, args, 0, Nil, Nil, a.err)
         ELSE IF r.err # Nil
              THEN Returned("ListByRepo", ctx, args, 1, Nil, Nil, r.err)
         ELSE InDo("ListByRepo", ctx, args, ctx, r.req, "[]*Issue", Nil))

ListByRepo(c, ctx, owner, repo, opts, ao, nr) ==
    LET args == [owner |-> owner, repo |-> repo, opts |-> opts]
        u == "repos/" \o owner \o "/" \o repo \o "/issues"
        a == addOptions(URL(u), "IssueListByRepoOptions", opts, ao)
        r == NewRequest("GET", a.u, UntypedNil, nr)
    IN Begin(c, ao, nr,
         IF a.err # Nil THEN Returned("ListByRepo", ctx, args, 0, Nil, Nil, a.err)
         ELSE IF r.err # Nil
              THEN Returned("ListByRepo", ctx, args, 1, Nil, Nil, r.err)
         ELSE InDo("ListByRepo", ctx, args, ctx,
                   HeaderSet(r.req, "Accept", mediaTypeReactionsPreview),
                   "[]*Issue", Nil))

\* Get without the preview header.
GetWithoutPreview(c, ctx, owner, repo, number, nr) ==
    LET args == [owner |-> owner, repo |-> repo, number |-> number]
        u == "repos/" \o owner \o "/" \o repo \o "/issues/" \o ToString(number)
        r == NewRequest("GET", URL(u), UntypedNil, nr)
    IN Begin(c, TRUE, nr,
         IF r.err # Nil THEN Returned("Get", ctx, args, 1, Nil, Nil, r.err)
         ELSE InDo("Get", ctx, args, ctx, r.req, "*Issue", Ptr("Issue{}")))

Get(c, ctx, owner, repo, number, nr) ==
    LET args == [owner |-> owner, repo |-> repo, number |-> number]
        u == "repos/" \o owner \o "/" \o repo \o "/issues/" \o ToString(number)
        r == NewRequest("GET", URL(u), UntypedNil, nr)
    IN Begin(c, TRUE, nr,
         IF r.err # Nil THEN Returned("Get", ctx, args, 1, Nil, Nil, r.err)
         ELSE InDo("Get", ctx, args, ctx,
                   HeaderSet(r.req, "Accept", mediaTypeReactionsPreview),
                   "*Issue", Ptr("Issue{}")))

Create(c, ctx, owner, repo, issue, nr) ==
    LET args == [owner |-> owner, repo |-> repo, issue |-> issue]
        u == "repos/" \o owner \o "/" \o repo \o "/issues"
        r == NewRequest("POST", URL(u), Iface("IssueRequest", issue), nr)
    IN Begin(c, TRUE, nr,
         IF r.err # Nil THEN Returned("Create", ctx, args, 1, Nil, Nil, r.err)
         ELSE InDo("Create", ctx, args, ctx, r.req, "*Issue", Ptr("Issue{}")))

\* Edit keeping the URL it built in the service, where other calls see it.
EditKeepingURL(c, ctx, owner, repo, number, issue, nr) ==
    LET args == [owner |-> owner, repo |-> repo, number |-> number,
                 issue |-> issue]
        u == "repos/" \o owner \o "/" \o repo \o "/issues/" \o ToString(number)
        r == NewRequest("PATCH", URL(u), Iface("IssueRequest", issue), nr)
    IN /\ Callable(c)
       /\ calls' = [calls EXCEPT ![c] =
             IF r.err # Nil THEN Returned("Edit", ctx, args, 1, Nil, Nil, r.err)
             ELSE InDo("Edit", ctx, args, ctx, r.req, "*Issue", Ptr("Issue{}"))]
       /\ service' = [client |-> service.client, u |-> u]
       /\ UNCHANGED <<wire, decoded, reported>>

Edit(c, ctx, owner, repo, number, issue, nr) ==
    LET args == [owner |-> owner, repo |-> repo, number |-> number,
                 issue |-> issue]
        u == "repos/" \o owner \o "/" \o repo \o "/issues/" \o ToString(number)
        r == NewRequest("PATCH", URL(u), Iface("IssueRequest", issue), nr)
    IN Begin(c, TRUE, nr,
         IF r.err # Nil THEN Returned("Edit", ctx, args, 1, Nil, Nil, r.err)
         ELSE InDo("Edit", ctx, args, ctx, r.req, "*Issue", Ptr("Issue{}")))

\* RemoveMilestone sending an IssueRequest whose Milestone is nil.
RemoveMilestoneByIssueRequest(c, ctx, owner, repo, issueNumber, nr) ==
    LET args == [owner |-> owner, repo |-> repo, number |-> issueNumber]
        u == "repos/" \o owner \o "/" \o repo \o "/issues/"
             \o ToString(issueNumber)
        body == Iface("IssueRequest", Ptr(Zero(IssueRequestFields)))
        r == NewRequest("PATCH", URL(u), body, nr)
    IN Begin(c, TRUE, nr,
         IF r.err # Nil
         THEN Returned("RemoveMilestone", ctx, args, 1, Nil, Nil, r.err)
         ELSE InDo("RemoveMilestone", ctx, args, ctx, r.req,
                   "*Issue", Ptr("Issue{}")))

RemoveMilestone(c, ctx, owner, repo, issueNumber, nr) ==
    LET args == [owner |-> owner, repo |-> repo, number |-> issueNumber]
        u == "repos/" \o owner \o "/" \o repo \o "/issues/"
             \o ToString(issueNumber)
        body == Iface("RemoveMilestone", Ptr(Zero(RemoveMilestoneFields)))
        r == NewRequest("PATCH", URL(u), body, nr)
    IN Begin(c, TRUE, nr,
         IF r.err # Nil
         THEN Returned("RemoveMilestone", ctx, args, 1, Nil, Nil, r.err)
         ELSE InDo("RemoveMilestone", ctx, args, ctx, r.req,
                   "*Issue", Ptr("Issue{}")))

Lock(c, ctx, owner, repo, number, opts, nr) ==
    LET args == [owner |-> owner, repo |-> repo, number |-> number,
                 opts |-> opts]
        u == "repos/" \o owner \o "/" \o repo \o "/issues/" \o ToString(number)
             \o "/lock"
        r == NewRequest("PUT", URL(u), Iface("LockIssueOptions", opts), nr)
    IN Begin(c, TRUE, nr,
         IF r.err # Nil THEN Returned("Lock", ctx, args, 1, Nil, Nil, r.err)
         ELSE InDo("Lock", ctx, args, ctx, r.req, "nil", Nil))

Unlock(c, ctx, owner, repo, number, nr) ==
    LET args == [owner |-> owner, repo |-> repo, number |-> number]
        u == "repos/" \o owner \o "/" \o repo \o "/issues/" \o ToString(number)
             \o "/lock"
        r == NewRequest("DELETE", URL(u), UntypedNil, nr)
    IN Begin(c, TRUE, nr,
         IF r.err # Nil THEN Returned("Unlock", ctx, args, 1, Nil, Nil, r.err)
         ELSE InDo("Unlock", ctx, args, ctx, r.req, "nil", Nil))

-----------------------------------------------------------------------------
(* Milestone operations *)

\* ListMilestones without the early return on a failure of addOptions.
ListMilestonesIgnoringError(c, ctx, owner, repo, opts, ao, nr) ==
    LET args == [owner |-> owner, repo |-> repo, opts |-> opts]
        u == "repos/" \o owner \o "/" \o repo \o "/milestones"
        a == addOptions(URL(u), "MilestoneListOptions", opts, ao)
        r == NewRequest("GET", a.u, UntypedNil, nr)
    IN Begin(c, ao, nr,
         IF r.err # Nil
         THEN Returned("ListMilestones", ctx, args, 1, Nil, Nil, r.err)
         ELSE InDo("ListMilestones", ctx, args, ctx, r.req,
                   "[]*Milestone", Nil))

ListMilestones(c, ctx, owner, repo, opts, ao, nr) ==
    LET args == [owner |-> owner, repo |-> repo, opts |-> opts]
        u == "repos/" \o owner \o "/" \o repo \o "/milestones"
        a == addOptions(URL(u), "MilestoneListOptions", opts, ao)
        r == NewRequest("GET", a.u, UntypedNil, nr)
    IN Begin(c, ao, nr,
         IF a.err # Nil
         THEN Returned("ListMilestones", ctx, args, 0, Nil, Nil, a.err)
         ELSE IF r.err # Nil
              THEN Returned("ListMilestones", ctx, args, 1, Nil, Nil, r.err)
         ELSE InDo("ListMilestones", ctx, args, ctx, r.req,
                   "[]*Milestone", Nil))

GetMilestone(c, ctx, owner, repo, number, nr) ==
    LET args == [owner |-> owner, repo |-> repo, number |-> number]
        u == "repos/" \o owner \o "/" \o repo \o "/milestones/"
             \o ToString(number)
        r == NewRequest("GET", URL(u), UntypedNil, nr)
    IN Begin(c, TRUE, nr,
         IF r.err # Nil
         THEN Returned("GetMilestone", ctx, args, 1, Nil, Nil, r.err)
         ELSE InDo("GetMilestone", ctx, args, ctx, r.req,
                   "*Milestone", Ptr("Milestone{}")))

CreateMilestone(c, ctx, owner, repo, milestone, nr) ==
    LET args == [owner |-> owner, repo |-> repo, milestone |-> milestone]
        u == "repos/" \o owner \o "/" \o repo \o "/milestones"
        r == NewRequest("POST", URL(u), Iface("Milestone", milestone), nr)
    IN Begin(c, TRUE, nr,
         IF r.err # Nil
         THEN Returned("CreateMilestone", ctx, args, 1, Nil, Nil, r.err)
         ELSE InDo("CreateMilestone", ctx, args, ctx, r.req,
                   "*Milestone", Ptr("Milestone{}")))

EditMilestone(c, ctx, owner, repo, number, milestone, nr) ==
    LET args == [owner |-> owner, repo |-> repo, number |-> number,
                 milestone |-> milestone]
        u == "repos/" \o owner \o "/" \o repo \o "/milestones/"
             \o ToString(number)
        r == NewRequest("PATCH", URL(u), Iface("Milestone", milestone), nr)
    IN Begin(c, TRUE, nr,
         IF r.err # Nil
         THEN Returned("EditMilestone", ctx, args, 1, Nil, Nil, r.err)
         ELSE InDo("EditMilestone", ctx, args, ctx, r.req,
                   "*Milestone", Ptr("Milestone{}")))

DeleteMilestone(c, ctx, owner, repo, number, nr) ==
    LET args == [owner |-> owner, repo |-> repo, number |-> number]
        u == "repos/" \o owner \o "/" \o repo \o "/milestones/"
             \o ToString(number)
        r == NewRequest("DELETE", URL(u), UntypedNil, nr)
    IN Begin(c, TRUE, nr,
         IF r.err # Nil
         THEN Returned("DeleteMilestone", ctx, args, 1, Nil, Nil, r.err)
         ELSE InDo("DeleteMilestone", ctx, args, ctx, r.req, "nil", Nil))

-----------------------------------------------------------------------------
(* The return from Do *)

Ret(result, resp, err) == Ptr([result |-> result, resp |-> resp, err |-> err])

\* The return that hands back the destination also when Do failed.
DecodedReturnKeepingValue(out) == Ret(out.v, out.resp, out.err)

\* if err != nil { return nil, resp, err }; return v, resp, nil
DecodedReturn(out) ==
    IF out.err # Nil THEN Ret(Nil, out.resp, out.err)
    ELSE Ret(out.v, out.resp, Nil)

\* return s.client.Do(ctx, req, nil)
DoReturn(out) == Ret(Nil, out.resp, out.err)

Epilogue(op, out) ==
    IF op \in {"Lock", "Unlock", "DeleteMilestone"} THEN DoReturn(out)
    ELSE DecodedReturn(out)

\* Do returns to the call that is inside it, and the call returns.
DoReturns(c, result) ==
    /\ calls[c].pc = "inDo"
    /\ LET out == Do(calls[c].dest, calls[c].v, result)
       IN calls' = [calls EXCEPT ![c].pc = "done",
                                 ![c].out = Ptr(out),
                                 ![c].v = out.v,
                                 ![c].ret = Epilogue(calls[c].op, out)]
    /\ UNCHANGED <<service, wire, decoded, reported>>


-----------------------------------------------------------------------------
(* Decoding an issue and asking whether it is a pull request               *)

\* json.Unmarshal into a struct of pointer fields: a field is set when its
\* key is present with a value other than null; other keys are ignored.
Unmarshal(fields, doc) ==
    [n \in {fields[i].field : i \in DOMAIN fields} |->
        LET k == fields[CHOOSE i \in DOMAIN fields : fields[i].field = n].name
        IN IF k \in DOMAIN doc /\ doc[k] # "null" THEN Ptr(doc[k]) ELSE Nil]

\* IsPullRequest that also takes a draft for a pull request.
IsPullRequestOrDraft(i) == i.PullRequestLinks # Nil \/ i.Draft # Nil

IsPullRequest(i) == i.PullRequestLinks # Nil

Decode ==
    /\ decoded = Nil
    /\ decoded' = Ptr(Unmarshal(IssueFields, wire))
    /\ UNCHANGED <<service, calls, wire, reported>>

CallIsPullRequest ==
    /\ decoded # Nil
    /\ reported = Nil
    /\ reported' = Ptr(IsPullRequest(Deref(decoded)))
    /\ UNCHANGED <<service, calls, wire, decoded>>

-----------------------------------------------------------------------------
(* Inputs *)

Contexts == {"ctxA", "ctxB"}
Owners == {"o", "p"}
Repos == {"r", "s"}
Orgs == {"g", "h"}
Numbers == 1 .. MaxNumber

IssueRequests ==
    LET z == Zero(IssueRequestFields)
    IN { Nil,
         Ptr(z),
         Ptr(With(z, [Title |-> Ptr("t"), Labels |-> Ptr(<<"bug", "p1">>)])),
         Ptr(With(z, [Title |-> Ptr(""), Labels |-> Ptr(<<>>)])),
         Ptr(With(z, [State |-> Ptr("closed"), Milestone |-> Ptr(1)])) }

LockOptions ==
    { Nil, Ptr([LockReason |-> "spam"]), Ptr([LockReason |-> ""]) }

Milestones ==
    LET z == Zero(MilestoneFields)
    IN { Nil,
         Ptr(With(z, [Title |-> Ptr("v1")])),
         Ptr(With(z, [State |-> Ptr("closed"), Number |-> Ptr(1)])) }

IssueListOptionsSet ==
    LET z == ZeroOptions("IssueListOptions")
    IN { Nil,
         Ptr(z),
         Ptr(With(z, [Labels |-> <<"bug", "p1">>])),
         Ptr(With(z, [State |-> "open", Labels |-> <<"bug">>,
                      Since |-> "2024-01-02T03:04:05Z",
                      ListCursorOptions |-> [Page |-> "abc", PerPage |-> 0],
                      ListOptions |-> [Page |-> 2, PerPage |-> 0]])) }

IssueListByRepoOptionsSet ==
    LET z == ZeroOptions("IssueListByRepoOptions")
    IN { Nil,
         Ptr(z),
         Ptr(With(z, [Labels |-> <<"bug", "p1">>])),
         Ptr(With(z, [Milestone |-> "*", Assignee |-> "none",
                      Labels |-> <<"bug">>,
                      ListOptions |-> [Page |-> 2, PerPage |-> 50]])) }

MilestoneListOptionsSet ==
    LET z == ZeroOptions("MilestoneListOptions")
    IN { Nil,
         Ptr(z),
         Ptr(With(z, [State |-> "closed", Sort |-> "due_on",
                      ListOptions |-> [Page |-> 2, PerPage |-> 0]])) }

WireKeys == {"pull_request", "draft", "type", "state"}

WireValue(k) ==
    CASE k = "pull_request" -> "{\"url\":\"u\"}"
      [] k = "draft"        -> "true"
      [] k = "type"         -> "{\"name\":\"Bug\"}"
      [] k = "state"        -> "\"open\""

\* Issue objects: any of the keys, each null or with a value.
WireIssues ==
    UNION { { [k \in K |-> IF k \in N THEN "null" ELSE WireValue(k)]
              : N \in SUBSET K } : K \in SUBSET WireKeys }

-----------------------------------------------------------------------------
(* Specifications *)

InitService == [client |-> "client"]

\* One goroutine calling the operations one after another.
Init ==
    /\ service = InitService
    /\ calls = [c \in {1} |-> IdleCall]
    /\ wire = <<>>
    /\ decoded = Nil
    /\ reported = Nil

Next ==
    \/ \E c \in DOMAIN calls, ctx \in Contexts, all \in BOOLEAN,
          opts \in IssueListOptionsSet, ao \in BOOLEAN, nr \in BOOLEAN :
            List(c, ctx, all, opts, ao, nr)
    \/ \E c \in DOMAIN calls, ctx \in Contexts, org \in Orgs,
          opts \in IssueListOptionsSet, ao \in BOOLEAN, nr \in BOOLEAN :
            ListByOrg(c, ctx, org, opts, ao, nr)
    \/ \E c \in DOMAIN calls, ctx \in Contexts, owner \in Owners, repo \in Repos,
          opts \in IssueListByRepoOptionsSet, ao \in BOOLEAN, nr \in BOOLEAN :
            ListByRepo(c, ctx, owner, repo, opts, ao, nr)
    \/ \E c \in DOMAIN calls, ctx \in Contexts, owner \in Owners, repo \in Repos,
          number \in Numbers, nr \in BOOLEAN :
            Get(c, ctx, owner, repo, number, nr)
    \/ \E c \in DOMAIN calls, ctx \in Contexts, owner \in Owners, repo \in Repos,
          issue \in IssueRequests, nr \in BOOLEAN :
            Create(c, ctx, owner, repo, issue, nr)
    \/ \E c \in DOMAIN calls, ctx \in Contexts, owner \in Owners, repo \in Repos,
          number \in Numbers, issue \in IssueRequests, nr \in BOOLEAN :
            Edit(c, ctx, owner, repo, number, issue, nr)
    \/ \E c \in DOMAIN calls, ctx \in Contexts, owner \in Owners, repo \in Repos,
          number \in Numbers, nr \in BOOLEAN :
            RemoveMilestone(c, ctx, owner, repo, number, nr)
    \/ \E c \in DOMAIN calls, ctx \in Contexts, owner \in Owners, repo \in Repos,
          number \in Numbers, opts \in LockOptions, nr \in BOOLEAN :
            Lock(c, ctx, owner, repo, number, opts, nr)
    \/ \E c \in DOMAIN calls, ctx \in Contexts, owner \in Owners, repo \in Repos,
          number \in Numbers, nr \in BOOLEAN :
            Unlock(c, ctx, owner, repo, number, nr)
    \/ \E c \in DOMAIN calls, ctx \in Contexts, owner \in Owners, repo \in Repos,
          opts \in MilestoneListOptionsSet, ao \in BOOLEAN, nr \in BOOLEAN :
            ListMilestones(c, ctx, owner, repo, opts, ao, nr)
    \/ \E c \in DOMAIN calls, ctx \in Contexts, owner \in Owners, repo \in Repos,
          number \in Numbers, nr \in BOOLEAN :
            GetMilestone(c, ctx, owner, repo, number, nr)
    \/ \E c \in DOMAIN calls, ctx \in Contexts, owner \in Owners, repo \in Repos,
          milestone \in Milestones, nr \in BOOLEAN :
            CreateMilestone(c, ctx, owner, repo, milestone, nr)
    \/ \E c \in DOMAIN calls, ctx \in Contexts, owner \in Owners, repo \in Repos,
          number \in Numbers, milestone \in Milestones, nr \in BOOLEAN :
            EditMilestone(c, ctx, owner, repo, number, milestone, nr)
    \/ \E c \in DOMAIN calls, ctx \in Contexts, owner \in Owners, repo \in Repos,
          number \in Numbers, nr \in BOOLEAN :
            DeleteMilestone(c, ctx, owner, repo, number, nr)
    \/ \E c \in DOMAIN calls, result \in DoResults : DoReturns(c, result)

Spec == Init /\ [][Next]_vars

\* NumCalls goroutines calling the operations of one service concurrently.
InitConc ==
    /\ service = InitService
    /\ calls = [c \in 1 .. NumCalls |-> IdleCall]
    /\ wire = <<>>
    /\ decoded = Nil
    /\ reported = Nil

ConcIssueRequests ==
    { Nil, Ptr(With(Zero(IssueRequestFields), [Title |-> Ptr("t")])) }

ConcListOptions ==
    { Ptr(With(ZeroOptions("IssueListOptions"), [Labels |-> <<"bug", "p1">>])) }

NextConc ==
    \/ \E c \in DOMAIN calls, ctx \in Contexts, all \in BOOLEAN,
          opts \in ConcListOptions :
            List(c, ctx, all, opts, TRUE, TRUE)
    \/ \E c \in DOMAIN calls, ctx \in Contexts, opts \in ConcListOptions :
            ListByOrg(c, ctx, "g", opts, TRUE, TRUE)
    \/ \E c \in DOMAIN calls, ctx \in Contexts :
            ListByRepo(c, ctx, "o", "r", Nil, TRUE, TRUE)
    \/ \E c \in DOMAIN calls, ctx \in Contexts :
            Get(c, ctx, "o", "r", 1, TRUE)
    \/ \E c \in DOMAIN calls, ctx \in Contexts :
            Create(c, ctx, "o", "r", Nil, TRUE)
    \/ \E c \in DOMAIN calls, ctx \in Contexts, issue \in ConcIssueRequests :
            Edit(c, ctx, "o", "r", 1, issue, TRUE)
    \/ \E c \in DOMAIN calls, ctx \in Contexts :
            RemoveMilestone(c, ctx, "o", "r", 1, TRUE)
    \/ \E c \in DOMAIN calls, ctx \in Contexts :
            Lock(c, ctx, "o", "r", 1, Nil, TRUE)
    \/ \E c \in DOMAIN calls, ctx \in Contexts :
            Unlock(c, ctx, "o", "r", 1, TRUE)
    \/ \E c \in DOMAIN calls, ctx \in Contexts :
            ListMilestones(c, ctx, "o", "r", Nil, TRUE, TRUE)
    \/ \E c \in DOMAIN calls, ctx \in Contexts :
            GetMilestone(c, ctx, "o", "r", 1, TRUE)
    \/ \E c \in DOMAIN calls, ctx \in Contexts :
            CreateMilestone(c, ctx, "o", "r", Nil, TRUE)
    \/ \E c \in DOMAIN calls, ctx \in Contexts :
            EditMilestone(c, ctx, "o", "r", 1, Nil, TRUE)
    \/ \E c \in DOMAIN calls, ctx \in Contexts :
            DeleteMilestone(c, ctx, "o", "r", 1, TRUE)
    \/ \E c \in DOMAIN calls, result \in {"ok", "transport"} :
            DoReturns(c, result)

SpecConc == InitConc /\ [][NextConc]_vars

\* Issues arriving on the wire, decoded and asked IsPullRequest.
InitIssue ==
    /\ service = InitService
    /\ calls = [c \in {1} |-> IdleCall]
    /\ wire \in WireIssues
    /\ decoded = Nil
    /\ reported = Nil

NextIssue == Decode \/ CallIsPullRequest

SpecIssue == InitIssue /\ [][NextIssue]_vars


-----------------------------------------------------------------------------
(* Properties *)

ListOps == {"List", "ListByOrg", "ListByRepo", "ListMilestones"}

Started(k) == k.pc # "idle"

\* What the collaborator did in call k, read from its recorded inputs.
AddOptionsFailed(k) == k.op \in ListOps /\ k.args.opts # Nil /\ ~k.ao
NewRequestFailed(k) == ~AddOptionsFailed(k) /\ ~k.nr
ConstructionError(k) ==
    IF AddOptionsFailed(k) THEN Err("addOptions: cannot encode")
    ELSE Err("NewRequest: cannot build")

HasRequest(k) == Started(k) /\ k.req # Nil

\* Whether text t occurs in text s.
Contains(s, t) ==
    \E i \in 1 .. (Len(s) - Len(t) + 1) : SubSeq(s, i, i + Len(t) - 1) = t

IssuePath(owner, repo, number) ==
    "repos/" \o owner \o "/" \o repo \o "/issues/" \o ToString(number)

\* C1: in every operation, when addOptions or NewRequest fails the call has
\* returned that error with a nil result and a nil Response, and Do was
\* never invoked in it.
C1_ConstructionFailureReturnsBeforeDo ==
    \A c \in DOMAIN calls :
        LET k == calls[c]
        IN (Started(k) /\ (AddOptionsFailed(k) \/ NewRequestFailed(k))) =>
              /\ k.pc = "done"
              /\ k.ret = Ptr([result |-> Nil, resp |-> Nil,
                              err |-> ConstructionError(k)])
              /\ k.nDo = 0
              /\ k.doCtx = Nil
              /\ k.out = Nil

C1_Witness ==
    \E c \in DOMAIN calls :
        /\ calls[c].op = "ListMilestones"
        /\ AddOptionsFailed(calls[c])
        /\ calls[c].pc = "done"
        /\ Deref(calls[c].ret).err = Err("addOptions: cannot encode")

\* C2: in every operation, when Do returns an error the call returns that
\* same error with the Response Do returned and a nil result, whatever Do
\* left in the destination, having called NewRequest once and Do once.
C2_DoErrorPropagatedUnchanged ==
    \A c \in DOMAIN calls :
        LET k == calls[c]
        IN (k.out # Nil /\ Deref(k.out).err # Nil) =>
              /\ k.pc = "done"
              /\ k.ret = Ptr([result |-> Nil, resp |-> Deref(k.out).resp,
                              err |-> Deref(k.out).err])
              /\ k.nNewRequest = 1
              /\ k.nDo = 1

C2_Witness ==
    \E c \in DOMAIN calls :
        /\ calls[c].op = "Get"
        /\ calls[c].pc = "done"
        /\ calls[c].out # Nil
        /\ Deref(calls[c].out).err = Err("cannot decode")
        /\ Deref(calls[c].out).v = Ptr("partly decoded *Issue")

\* C3: RemoveMilestone sends PATCH repos/{owner}/{repo}/issues/{number}
\* with the body {"milestone":null}; Edit with a request whose Milestone is
\* nil sends a body without the milestone key, and an Edit body holds the
\* key of a field exactly when the field is non-nil.
C3_RemoveMilestoneSendsExplicitNull ==
    \A c \in DOMAIN calls :
        LET k == calls[c]
            req == Deref(k.req)
        IN /\ (HasRequest(k) /\ k.op = "RemoveMilestone") =>
                 /\ req.method = "PATCH"
                 /\ req.path = IssuePath(k.args.owner, k.args.repo, k.args.number)
                 /\ req.body = Ptr("{\"milestone\":null}")
           /\ (HasRequest(k) /\ k.op = "Edit" /\ k.args.issue # Nil) =>
                 /\ req.method = "PATCH"
                 /\ req.path = IssuePath(k.args.owner, k.args.repo, k.args.number)
                 /\ req.body # Nil
                 /\ \A i \in DOMAIN IssueRequestFields :
                       LET f == IssueRequestFields[i]
                       IN Contains(Deref(req.body), Quote(f.name) \o ":")
                          <=> Deref(k.args.issue)[f.field] # Nil
                 /\ ~Contains(Deref(req.body), "null")

C3_Witness ==
    \E c \in DOMAIN calls :
        /\ calls[c].op = "RemoveMilestone"
        /\ calls[c].pc = "inDo"
        /\ Deref(calls[c].req).body = Ptr("{\"milestone\":null}")

C5_ListSelectsEndpointByAll ==
    \A c \in DOMAIN calls :
        LET k == calls[c]
            req == Deref(k.req)
        IN (HasRequest(k) /\ k.op = "List") =>
              /\ req.method = "GET"
              /\ k.args.all => req.path = "issues"
              /\ ~k.args.all => req.path = "user/issues"
              /\ k.args.opts = Nil => req.query = <<>>

C5_Witness ==
    \E c \in DOMAIN calls :
        /\ calls[c].op = "List"
        /\ calls[c].pc = "inDo"
        /\ ~calls[c].args.all
        /\ calls[c].args.opts # Nil
        /\ Deref(calls[c].req).query # <<>>
        /\ Deref(calls[c].req).path = "user/issues"

PreviewSet(req) ==
    /\ "Accept" \in DOMAIN req.header
    /\ req.header["Accept"] = mediaTypeReactionsPreview

\* C6: the request Get hands to Do is GET repos/{owner}/{repo}/issues/{number}
\* with no query, no body and the reactions-preview Accept header.
C6_GetRequestsIssueWithPreview ==
    \A c \in DOMAIN calls :
        LET k == calls[c]
            req == Deref(k.req)
        IN (Started(k) /\ k.op = "Get" /\ k.nr) =>
              /\ k.nDo = 1
              /\ k.req # Nil
              /\ req.method = "GET"
              /\ req.path = IssuePath(k.args.owner, k.args.repo, k.args.number)
              /\ req.query = <<>>
              /\ req.body = Nil
              /\ PreviewSet(req)

C6_Witness ==
    \E c \in DOMAIN calls :
        /\ calls[c].op = "Get"
        /\ calls[c].pc = "inDo"
        /\ Deref(calls[c].req).path = "repos/p/s/issues/2"
        /\ PreviewSet(Deref(calls[c].req))

\* C7: a request that reaches Do carries the reactions-preview Accept header
\* exactly when it comes from List, ListByOrg, ListByRepo or Get; the
\* requests of the other operations carry no Accept header set here.
C7_PreviewOnIssueListAndGetOnly ==
    \A c \in DOMAIN calls :
        LET k == calls[c]
            req == Deref(k.req)
        IN HasRequest(k) =>
              IF k.op \in {"List", "ListByOrg", "ListByRepo", "Get"}
              THEN PreviewSet(req)
              ELSE DOMAIN req.header = {}

C7_Witness ==
    \E c \in DOMAIN calls :
        /\ calls[c].op = "ListByRepo"
        /\ calls[c].pc = "inDo"
        /\ PreviewSet(Deref(calls[c].req))

\* C8: IsPullRequest reports true exactly when PullRequestLinks is non-nil,
\* that is when the JSON held the key pull_request with a value other than
\* null; draft, type and state make no difference.
C8_IsPullRequestIffLinksPresent ==
    reported # Nil =>
        /\ Deref(reported) = (Deref(decoded).PullRequestLinks # Nil)
        /\ Deref(reported) =
              ("pull_request" \in DOMAIN wire /\ wire["pull_request"] # "null")

C8_Witness ==
    /\ reported = Ptr(FALSE)
    /\ "pull_request" \in DOMAIN wire
    /\ "draft" \in DOMAIN wire
    /\ wire["draft"] = "true"
    /\ Deref(decoded).Draft # Nil

\* C9: with calls running concurrently on one service, no call changes the
\* service; the context given to Do is the caller's; calls of one operation
\* with equal arguments build equal requests whatever else is running; and
\* calls of one operation to which Do returned the same return the same.
C9_CallsAreIndependent ==
    /\ service = InitService
    /\ \A c \in DOMAIN calls :
          calls[c].doCtx # Nil => calls[c].doCtx = Ptr(calls[c].ctx)
    /\ \A c1, c2 \in DOMAIN calls :
          LET k1 == calls[c1]
              k2 == calls[c2]
          IN /\ (HasRequest(k1) /\ HasRequest(k2) /\ k1.op = k2.op
                   /\ k1.args = k2.args) => k1.req = k2.req
             /\ (k1.out # Nil /\ k2.out # Nil /\ k1.op = k2.op
                   /\ k1.out = k2.out) => k1.ret = k2.ret

C9_Witness ==
    /\ calls[1].pc = "inDo"
    /\ calls[2].pc = "inDo"
    /\ calls[1].op = "Edit"
    /\ calls[2].op = "Edit"
    /\ calls[1].args # calls[2].args
    /\ calls[1].ctx # calls[2].ctx
    /\ calls[1].req # calls[2].req

ListOptionsType(op) ==
    IF op = "ListByRepo" THEN "IssueListByRepoOptions" ELSE "IssueListOptions"

RECURSIVE NonEmptyFields(_, _)
NonEmptyFields(fields, val) ==
    IF fields = <<>> THEN 0
    ELSE (IF IsEmptyValue(fields[1].kind, val[fields[1].field]) THEN 0 ELSE 1)
         + NonEmptyFields(Tail(fields), val)

IsLabelsParam(p) == p[1] = "labels"

\* C10: in the issue list operations the Labels ["bug","p1"] become the one
\* query parameter labels=bug,p1, Labels never become more than one
\* parameter, and every parameter comes from a non-empty field: options
\* with all fields empty give no parameter at all.
C10_LabelsCommaJoined ==
    \A c \in DOMAIN calls :
        LET k == calls[c]
            o == Deref(k.args.opts)
            q == Deref(k.req).query
            t == ListOptionsType(k.op)
        IN (HasRequest(k) /\ k.op \in {"List", "ListByOrg", "ListByRepo"}
              /\ k.args.opts # Nil) =>
              /\ o.Labels = <<"bug", "p1">> =>
                    SelectSeq(q, IsLabelsParam) = << <<"labels", "bug,p1">> >>
              /\ o.Labels = <<>> => SelectSeq(q, IsLabelsParam) = <<>>
              /\ Len(SelectSeq(q, IsLabelsParam)) <= 1
              /\ Len(q) = NonEmptyFields(OptionFields(t), o)
                          + NonEmptyFields(ListCursorOptionsFields,
                                           o.ListCursorOptions)
                          + NonEmptyFields(ListOptionsFields, o.ListOptions)
              /\ o = ZeroOptions(t) => q = <<>>

C10_Witness ==
    \E c \in DOMAIN calls :
        /\ calls[c].op = "ListByRepo"
        /\ calls[c].pc = "inDo"
        /\ calls[c].args.opts # Nil
        /\ Deref(calls[c].args.opts).Labels = <<"bug", "p1">>
        /\ Deref(calls[c].req).query = << <<"labels", "bug,p1">> >>


Fragments == {"ListCursorOptions", "ListOptions"}

Params(q) == {q[i] : i \in DOMAIN q}

\* C11 as stated: the options of every list operation, ListMilestones
\* included, hold both pagination fragments, ListCursorOptions and
\* ListOptions.
C11_EveryListOptionsHasBothFragments ==
    \A c \in DOMAIN calls :
        LET k == calls[c]
        IN (HasRequest(k) /\ k.op \in ListOps /\ k.args.opts # Nil) =>
              Fragments \subseteq DOMAIN Deref(k.args.opts)

\* C11 as amended: the options of List, ListByOrg and ListByRepo hold both
\* pagination fragments, and a cursor page and an offset page given there
\* both become page parameters of the request; the options of
\* ListMilestones hold ListOptions only, whose page becomes a parameter.
C11_IssueListsBothFragmentsMilestonesOffsetOnly ==
    \A c \in DOMAIN calls :
        LET k == calls[c]
            o == Deref(k.args.opts)
            q == Deref(k.req).query
        IN (HasRequest(k) /\ k.op \in ListOps /\ k.args.opts # Nil) =>
              IF k.op = "ListMilestones"
              THEN /\ Fragments \cap DOMAIN o = {"ListOptions"}
                   /\ o.ListOptions.Page # 0 =>
                         <<"page", ToString(o.ListOptions.Page)>> \in Params(q)
              ELSE /\ Fragments \subseteq DOMAIN o
                   /\ o.ListCursorOptions.Page # "" =>
                         <<"page", o.ListCursorOptions.Page>> \in Params(q)
                   /\ o.ListOptions.Page # 0 =>
                         <<"page", ToString(o.ListOptions.Page)>> \in Params(q)

C11_Witness ==
    \E c \in DOMAIN calls :
        /\ calls[c].op = "List"
        /\ calls[c].pc = "inDo"
        /\ calls[c].args.opts # Nil
        /\ Deref(calls[c].args.opts).ListCursorOptions.Page = "abc"
        /\ Deref(calls[c].args.opts).ListOptions.Page = 2
        /\ {<<"page", "abc">>, <<"page", "2">>}
              \subseteq Params(Deref(calls[c].req).query)


====
